---- MODULE Spec2Model ----
(***************************************************************************)
(* A model of utils/azure_auth_helper.py (authenticate_azure and its two   *)
(* interactive helpers) and of the pytest harness in tests/conftest.py and *)
(* tests/test_notebooks.py.                                                *)
(*                                                                         *)
(* Python strings are sequences of one-character strings, so that          *)
(* str.lower() and the glob pattern "*.ipynb" are computed character by    *)
(* character.  Python values carry their type: None, a str, an int.        *)
(* The credential constructors of azure.identity are taken to succeed;     *)
(* get_token succeeds or raises as the environment (token_ok) decides.     *)
(***************************************************************************)
EXTENDS Naturals, Sequences, FiniteSets

VARIABLES
    arg_auth_method, \* the auth_method argument as the caller passed it
    auth_method,     \* the local auth_method (reassigned on line 36)
    tenant_id,       \* the tenant_id argument
    force,           \* the force argument
    token_ok,        \* environment: does get_token succeed on a credential class
    pc,              \* position of the call inside azure_auth_helper.py
    credentials,     \* credential objects constructed so far, in order
    token_requests,  \* get_token calls made so far: the credential asked, and the result
    stdout,          \* lines printed so far
    outcome,         \* how the call ended: running, returned, raised
    fs,              \* the file tree under repo_root: entries [path, kind]
    nbmake,          \* was pytest started with --nbmake
    phase,           \* "fs": the tree is being laid out; "pytest": session runs
    report           \* test id -> "pending" | "passed" | "failed" | "skipped"

authVars == <<arg_auth_method, auth_method, tenant_id, force, token_ok, pc,
              credentials, token_requests, stdout, outcome>>
testVars == <<fs, nbmake, phase, report>>
vars == <<arg_auth_method, auth_method, tenant_id, force, token_ok, pc,
          credentials, token_requests, stdout, outcome, fs, nbmake, phase, report>>

----------------------------------------------------------------------------
(* Python values *)

PyNone == [type |-> "NoneType"]
PyStr(s) == [type |-> "str", chars |-> s]
PyInt(n) == [type |-> "int", val |-> n]

UpperCase == <<"A","B","C","D","E","F","G","H","I","J","K","L","M",
               "N","O","P","Q","R","S","T","U","V","W","X","Y","Z">>
LowerCase == <<"a","b","c","d","e","f","g","h","i","j","k","l","m",
               "n","o","p","q","r","s","t","u","v","w","x","y","z">>

LowerChar(c) ==
    IF \E i \in 1..Len(UpperCase) : UpperCase[i] = c
    THEN LowerCase[CHOOSE i \in 1..Len(UpperCase) : UpperCase[i] = c]
    ELSE c

\* str.lower()
Lower(s) == [i \in 1..Len(s) |-> LowerChar(s[i])]

S_browser == <<"b","r","o","w","s","e","r">>
S_device  == <<"d","e","v","i","c","e">>

----------------------------------------------------------------------------
(* Inputs of one call *)

NumTenants == 2

Tenant(i) == PyStr([k \in 1..i |-> "t"])

TenantInputs == {PyNone} \cup {Tenant(i) : i \in 1..NumTenants}

MethodInputs ==
    { PyNone,
      PyStr(S_browser),
      PyStr(<<"B","r","o","w","s","e","r">>),
      PyStr(S_device),
      PyStr(<<"D","E","V","I","C","E">>),
      PyStr(<<"c","l","i">>),
      PyStr(<<>>),
      PyInt(7) }

CredentialClasses ==
    {"DefaultAzureCredential", "InteractiveBrowserCredential", "DeviceCodeCredential"}

\* The object a credential constructor returns.
Credential(cls, tenant) == [cls |-> cls, tenant_id |-> tenant]

\* The exception get_token raises on a credential of class cls.
TokenError(cls) == [type |-> "ClientAuthenticationError", from |-> cls]

ValueError(what) == [type |-> "ValueError", about |-> what]

AttributeError == [type |-> "AttributeError", about |-> "lower"]

\* credential.get_token(scope): the call, and whether it returned a token.
GetToken(credential) == [credential |-> credential, ok |-> token_ok[credential.cls]]

Running == [kind |-> "running"]
Returned(c) == [kind |-> "returned", value |-> c]
Raised(e) == [kind |-> "raised", error |-> e]

----------------------------------------------------------------------------
(* authenticate_azure *)

AuthInit ==
    /\ arg_auth_method \in MethodInputs
    /\ auth_method = arg_auth_method
    /\ tenant_id \in TenantInputs
    /\ force \in BOOLEAN
    /\ token_ok \in [CredentialClasses -> BOOLEAN]
    /\ pc = "L35"
    /\ credentials = <<>>
    /\ token_requests = <<>>
    /\ stdout = <<>>
    /\ outcome = Running

\* lines 35-36
SetDefaultMethod ==
    /\ pc = "L35"
    /\ auth_method' = IF auth_method = PyNone THEN PyStr(S_browser) ELSE auth_method
    /\ pc' = "L39"
    /\ UNCHANGED testVars
    /\ UNCHANGED <<arg_auth_method, tenant_id, force, token_ok, credentials,
                   token_requests, stdout, outcome>>

ValidateTenant_Skipped ==
    /\ pc = "L39"
    /\ pc' = "L43"
    /\ UNCHANGED testVars
    /\ UNCHANGED <<arg_auth_method, auth_method, tenant_id, force, token_ok,
                   credentials, token_requests, stdout, outcome>>

\* lines 39-40
ValidateTenant ==
    /\ pc = "L39"
    /\ IF tenant_id = PyNone
       THEN /\ outcome' = Raised(ValueError("tenant_id"))
            /\ pc' = "done"
       ELSE /\ outcome' = outcome
            /\ pc' = "L43"
    /\ UNCHANGED testVars
    /\ UNCHANGED <<arg_auth_method, auth_method, tenant_id, force, token_ok,
                   credentials, token_requests, stdout>>

CheckForce_Ignored ==
    /\ pc = "L43"
    /\ pc' = "L45"
    /\ UNCHANGED testVars
    /\ UNCHANGED <<arg_auth_method, auth_method, tenant_id, force, token_ok,
                   credentials, token_requests, stdout, outcome>>

\* line 43
CheckForce ==
    /\ pc = "L43"
    /\ pc' = IF ~force THEN "L45" ELSE "L53"
    /\ UNCHANGED testVars
    /\ UNCHANGED <<arg_auth_method, auth_method, tenant_id, force, token_ok,
                   credentials, token_requests, stdout, outcome>>

\* line 45
ConstructDefault ==
    /\ pc = "L45"
    /\ credentials' = Append(credentials, Credential("DefaultAzureCredential", PyNone))
    /\ pc' = "L46"
    /\ UNCHANGED testVars
    /\ UNCHANGED <<arg_auth_method, auth_method, tenant_id, force, token_ok,
                   token_requests, stdout, outcome>>

GetTokenDefault_FallsThrough ==
    /\ pc = "L46"
    /\ token_requests' = Append(token_requests, GetToken(credentials[Len(credentials)]))
    /\ stdout' = Append(stdout, [msg |-> "Using existing Azure credentials"])
    /\ pc' = "L53"
    /\ UNCHANGED testVars
    /\ UNCHANGED <<arg_auth_method, auth_method, tenant_id, force, token_ok,
                   credentials, outcome>>

\* lines 46-50
GetTokenDefault ==
    /\ pc = "L46"
    /\ token_requests' = Append(token_requests, GetToken(credentials[Len(credentials)]))
    /\ IF GetToken(credentials[Len(credentials)]).ok
       THEN /\ stdout' = Append(stdout, [msg |-> "Using existing Azure credentials"])
            /\ outcome' = Returned(credentials[Len(credentials)])
            /\ pc' = "done"
       ELSE /\ stdout' = Append(stdout, [msg |-> "No existing credentials found"])
            /\ outcome' = outcome
            /\ pc' = "L53"
    /\ UNCHANGED testVars
    /\ UNCHANGED <<arg_auth_method, auth_method, tenant_id, force, token_ok,
                   credentials>>

\* The branch lines 53-60 take for a str auth_method.
DispatchTarget_Swapped(m) ==
    IF Lower(m) = S_browser THEN "L81"
    ELSE IF Lower(m) = S_device THEN "L65"
    ELSE "L58"

DispatchTarget(m) ==
    IF Lower(m) = S_browser THEN "L65"
    ELSE IF Lower(m) = S_device THEN "L81"
    ELSE "L58"

\* lines 53-60
DispatchMethod ==
    /\ pc = "L53"
    /\ IF auth_method.type # "str"
       THEN /\ outcome' = Raised(AttributeError)
            /\ pc' = "done"
       ELSE IF DispatchTarget(auth_method.chars) = "L58"
       THEN /\ outcome' = Raised(ValueError("auth_method"))
            /\ pc' = "done"
       ELSE /\ outcome' = outcome
            /\ pc' = DispatchTarget(auth_method.chars)
    /\ UNCHANGED testVars
    /\ UNCHANGED <<arg_auth_method, auth_method, tenant_id, force, token_ok,
                   credentials, token_requests, stdout>>

BrowserConstruct_NoTenant ==
    /\ pc = "L65"
    /\ stdout' = stdout \o <<[msg |-> "Starting interactive browser authentication"],
                             [msg |-> "Authenticating with tenant", tenant |-> tenant_id]>>
    /\ credentials' = Append(credentials, Credential("InteractiveBrowserCredential", PyNone))
    /\ pc' = "L71"
    /\ UNCHANGED testVars
    /\ UNCHANGED <<arg_auth_method, auth_method, tenant_id, force, token_ok,
                   token_requests, outcome>>

\* _authenticate_with_browser, lines 65-67
BrowserConstruct ==
    /\ pc = "L65"
    /\ stdout' = stdout \o <<[msg |-> "Starting interactive browser authentication"],
                             [msg |-> "Authenticating with tenant", tenant |-> tenant_id]>>
    /\ credentials' = Append(credentials, Credential("InteractiveBrowserCredential", tenant_id))
    /\ pc' = "L71"
    /\ UNCHANGED testVars
    /\ UNCHANGED <<arg_auth_method, auth_method, tenant_id, force, token_ok,
                   token_requests, outcome>>

BrowserGetToken_Retrying ==
    /\ pc = "L71"
    /\ token_requests' = Append(token_requests, GetToken(credentials[Len(credentials)]))
    /\ IF GetToken(credentials[Len(credentials)]).ok
       THEN /\ stdout' = Append(stdout, [msg |-> "Authentication successful"])
            /\ outcome' = Returned(credentials[Len(credentials)])
            /\ pc' = "done"
       ELSE IF \E i \in 1..Len(token_requests) :
                    token_requests[i].credential = credentials[Len(credentials)]
       THEN /\ stdout' = Append(stdout, [msg |-> "Authentication failed",
                                         error |-> TokenError("InteractiveBrowserCredential")])
            /\ outcome' = Raised(TokenError("InteractiveBrowserCredential"))
            /\ pc' = "done"
       ELSE /\ stdout' = stdout
            /\ outcome' = outcome
            /\ pc' = "L71"
    /\ UNCHANGED testVars
    /\ UNCHANGED <<arg_auth_method, auth_method, tenant_id, force, token_ok,
                   credentials>>

\* _authenticate_with_browser, lines 70-76
BrowserGetToken ==
    /\ pc = "L71"
    /\ token_requests' = Append(token_requests, GetToken(credentials[Len(credentials)]))
    /\ IF GetToken(credentials[Len(credentials)]).ok
       THEN /\ stdout' = Append(stdout, [msg |-> "Authentication successful"])
            /\ outcome' = Returned(credentials[Len(credentials)])
       ELSE /\ stdout' = Append(stdout, [msg |-> "Authentication failed",
                                         error |-> TokenError("InteractiveBrowserCredential")])
            /\ outcome' = Raised(TokenError("InteractiveBrowserCredential"))
    /\ pc' = "done"
    /\ UNCHANGED testVars
    /\ UNCHANGED <<arg_auth_method, auth_method, tenant_id, force, token_ok,
                   credentials>>

\* _authenticate_with_device_code, lines 81-84
DeviceConstruct ==
    /\ pc = "L81"
    /\ stdout' = stdout \o <<[msg |-> "Starting device code authentication"],
                             [msg |-> "Authenticating with tenant", tenant |-> tenant_id],
                             [msg |-> "You'll receive a code to enter on another device"]>>
    /\ credentials' = Append(credentials, Credential("DeviceCodeCredential", tenant_id))
    /\ pc' = "L88"
    /\ UNCHANGED testVars
    /\ UNCHANGED <<arg_auth_method, auth_method, tenant_id, force, token_ok,
                   token_requests, outcome>>

\* _authenticate_with_device_code, lines 87-93
DeviceGetToken ==
    /\ pc = "L88"
    /\ token_requests' = Append(token_requests, GetToken(credentials[Len(credentials)]))
    /\ IF GetToken(credentials[Len(credentials)]).ok
       THEN /\ stdout' = Append(stdout, [msg |-> "Authentication successful"])
            /\ outcome' = Returned(credentials[Len(credentials)])
       ELSE /\ stdout' = Append(stdout, [msg |-> "Authentication failed",
                                         error |-> TokenError("DeviceCodeCredential")])
            /\ outcome' = Raised(TokenError("DeviceCodeCredential"))
    /\ pc' = "done"
    /\ UNCHANGED testVars
    /\ UNCHANGED <<arg_auth_method, auth_method, tenant_id, force, token_ok,
                   credentials>>

Next ==
    \/ SetDefaultMethod
    \/ ValidateTenant
    \/ CheckForce
    \/ ConstructDefault
    \/ GetTokenDefault
    \/ DispatchMethod
    \/ BrowserConstruct
    \/ BrowserGetToken
    \/ DeviceConstruct
    \/ DeviceGetToken

----------------------------------------------------------------------------
(* The file tree under repo_root, and pathlib on it *)

MaxEntries == 3

N_notebooks == <<"n","o","t","e","b","o","o","k","s">>
N_simple ==
    <<"s","i","m","p","l","e","_","d","e","m","o","_","n","o","t","e","b","o","o","k",".","i","p","y","n","b">>
N_error ==
    <<"e","r","r","o","r","_","d","e","m","o","_","n","o","t","e","b","o","o","k",".","i","p","y","n","b">>
N_readme == <<"R","E","A","D","M","E",".","m","d">>

\* The glob pattern of test_all_notebooks_exist, after its "**/" part.
P_ipynb == <<"*",".","i","p","y","n","b">>

Names == {N_notebooks, N_simple, N_error, N_readme}

\* fnmatch.fnmatchcase for a pattern of literal characters and "*".
RECURSIVE Fnmatch(_, _)
Fnmatch(name, pat) ==
    IF pat = <<>> THEN name = <<>>
    ELSE IF Head(pat) = "*"
    THEN \E k \in 0..Len(name) : Fnmatch(SubSeq(name, k + 1, Len(name)), Tail(pat))
    ELSE /\ name # <<>>
         /\ Head(name) = Head(pat)
         /\ Fnmatch(Tail(name), Tail(pat))

\* The entries directly inside directory dir (a path; <<>> is the root).
Children(tree, dir) ==
    {e \in tree : Len(e.path) = Len(dir) + 1 /\ SubSeq(e.path, 1, Len(dir)) = dir}

\* Path.exists()
Exists(tree, path) == \E e \in tree : e.path = path

\* Path.glob("**/" + pat) from dir: pat against every entry of dir and of each
\* directory below it; an entry of either kind is yielded when its name matches.
RECURSIVE Glob(_, _, _)
Glob(tree, dir, pat) ==
    {e \in Children(tree, dir) : Fnmatch(e.path[Len(e.path)], pat)}
    \cup UNION {Glob(tree, d.path, pat) : d \in {e \in Children(tree, dir) : e.kind = "dir"}}

\* conftest.py: root_dir, and the two fixtures built from it
root_dir == <<>>
repo_root == root_dir
notebooks_dir == Append(root_dir, N_notebooks)

----------------------------------------------------------------------------
(* The pytest session over tests/test_notebooks.py *)

\* Test ids in collection order.
TestIds == <<"test_simple_demo_notebook", "test_all_notebooks_exist",
             "test_notebook_execution[simple_demo]", "test_notebook_execution[error_demo]">>

TestInit ==
    /\ fs = {}
    /\ nbmake = FALSE
    /\ phase = "fs"
    /\ report = [i \in 1..Len(TestIds) |-> "pending"]

\* The environment lays out the tree before the session starts.
AddEntry(parent, name, kind) ==
    /\ phase = "fs"
    /\ Cardinality(fs) < MaxEntries
    /\ parent = root_dir \/ \E e \in fs : e.path = parent /\ e.kind = "dir"
    /\ ~Exists(fs, Append(parent, name))
    /\ fs' = fs \cup {[path |-> Append(parent, name), kind |-> kind]}
    /\ UNCHANGED authVars
    /\ UNCHANGED <<nbmake, phase, report>>

\* pytest is started, with or without --nbmake.
StartPytest(flag) ==
    /\ phase = "fs"
    /\ phase' = "pytest"
    /\ nbmake' = flag
    /\ UNCHANGED authVars
    /\ UNCHANGED <<fs, report>>

\* Test i is the next one to run.
IsNext(i) ==
    /\ phase = "pytest"
    /\ report[i] = "pending"
    /\ \A j \in 1..(i - 1) : report[j] # "pending"

\* The outcome of a test whose body is one assert.
AssertOutcome(cond) == IF cond THEN "passed" ELSE "failed"

\* test_simple_demo_notebook, lines 11-20
TestSimpleDemoNotebook ==
    /\ IsNext(1)
    /\ report' = [report EXCEPT ![1] = AssertOutcome(Exists(fs, Append(notebooks_dir, N_simple)))]
    /\ UNCHANGED authVars
    /\ UNCHANGED <<fs, nbmake, phase>>

\* test_all_notebooks_exist, lines 24-34
TestAllNotebooksExist ==
    /\ IsNext(2)
    /\ report' = [report EXCEPT ![2] = AssertOutcome(Glob(fs, repo_root, P_ipynb) # {})]
    /\ UNCHANGED authVars
    /\ UNCHANGED <<fs, nbmake, phase>>

\* test_notebook_execution, lines 43-51, for one parametrized notebook_file
TestNotebookExecution(i, notebook_file) ==
    /\ IsNext(i)
    /\ report' = [report EXCEPT ![i] = AssertOutcome(Exists(fs, Append(notebooks_dir, notebook_file)))]
    /\ UNCHANGED authVars
    /\ UNCHANGED <<fs, nbmake, phase>>

\* test_notebook_execution[simple_demo]
TestExecutionSimple ==
    /\ IsNext(3)
    /\ TestNotebookExecution(3, N_simple)

\* test_notebook_execution[error_demo]
TestExecutionError ==
    /\ IsNext(4)
    /\ TestNotebookExecution(4, N_error)

LayOutTree ==
    \E parent \in {root_dir} \cup {e.path : e \in fs}, name \in Names, kind \in {"file", "dir"} :
        AddEntry(parent, name, kind)

RunPytest == \E flag \in BOOLEAN : StartPytest(flag)

PytestNext ==
    \/ LayOutTree
    \/ RunPytest
    \/ TestSimpleDemoNotebook
    \/ TestAllNotebooksExist
    \/ TestExecutionSimple
    \/ TestExecutionError

----------------------------------------------------------------------------
(* Specifications *)

\* authenticate_azure is not being called.
AuthIdle ==
    /\ arg_auth_method = PyNone
    /\ auth_method = PyNone
    /\ tenant_id = PyNone
    /\ force = FALSE
    /\ token_ok = [c \in CredentialClasses |-> FALSE]
    /\ pc = "idle"
    /\ credentials = <<>>
    /\ token_requests = <<>>
    /\ stdout = <<>>
    /\ outcome = Running

Init == AuthInit /\ TestInit

\* One call of authenticate_azure.
Spec == Init /\ [][Next]_vars

PytestInit == AuthIdle /\ TestInit

\* One pytest session over a file tree.
PytestSpec == PytestInit /\ [][PytestNext]_vars

----------------------------------------------------------------------------
(* Properties of authenticate_azure, checked under Spec *)

InteractiveClasses == {"InteractiveBrowserCredential", "DeviceCodeCredential"}

Cached == Credential("DefaultAzureCredential", PyNone)

\* The credentials constructed so far, and those asked for a token so far.
Constructed == {credentials[i] : i \in 1..Len(credentials)}
Asked == {token_requests[i].credential : i \in 1..Len(token_requests)}

\* How many token requests were made on credential c.
RequestsOn(c) == Cardinality({i \in 1..Len(token_requests) : token_requests[i].credential = c})

\* A str that names neither flow, whatever its case.
IsUnknownMethod(m) == m.type = "str" /\ Lower(m.chars) \notin {S_browser, S_device}

ValueErrorRaised == outcome.kind = "raised" /\ outcome.error.type = "ValueError"

\* C1: a call whose auth_method names neither "browser" nor "device" ends with
\* a ValueError and returns no credential, whatever force is and whether or
\* not the cached credential's token request succeeds.
C1_UnknownMethodEndsInValueError ==
    (IsUnknownMethod(arg_auth_method) /\ pc = "done") => ValueErrorRaised

\* C2: with tenant_id=None the call fails with a ValueError, and up to and at
\* that moment no credential has been constructed and no token requested,
\* whatever auth_method and force are.
C2_NoTenantFailsBeforeAnyCredential ==
    tenant_id = PyNone =>
        /\ credentials = <<>>
        /\ token_requests = <<>>
        /\ pc \in {"L35", "L39", "done"}
        /\ pc = "done" => outcome = Raised(ValueError("tenant_id"))

C2_Witness ==
    /\ tenant_id = PyNone
    /\ force
    /\ arg_auth_method = PyStr(S_device)
    /\ pc = "done"
    /\ ValueErrorRaised

\* C3: with force=False, a tenant_id and a cached credential whose token
\* request succeeds, no interactive credential is ever constructed or asked
\* for a token, for every auth_method, and the call returns the cached
\* credential.
C3_ValidCachedCredentialIsReturned ==
    (~force /\ tenant_id # PyNone /\ token_ok["DefaultAzureCredential"]) =>
        /\ Constructed \subseteq {Cached}
        /\ Asked \subseteq {Cached}
        /\ pc \in {"L35", "L39", "L43", "L45", "L46", "done"}
        /\ pc = "done" => /\ outcome = Returned(Cached)
                          /\ credentials = <<Cached>>
                          /\ token_requests = <<[credential |-> Cached, ok |-> TRUE]>>

C3_Witness ==
    /\ ~force
    /\ tenant_id # PyNone
    /\ token_ok["DefaultAzureCredential"]
    /\ arg_auth_method = PyStr(S_device)
    /\ pc = "done"
    /\ outcome = Returned(Cached)

\* C4: with force=True the cached credential is never constructed and never
\* asked for a token, valid or not, nothing of the cached path is printed, and
\* a returned credential is an interactive one.
C4_ForceBypassesCachedCredential ==
    force =>
        /\ \A c \in Constructed \cup Asked : c.cls \in InteractiveClasses
        /\ \A i \in 1..Len(stdout) :
               stdout[i].msg \notin {"Using existing Azure credentials",
                                     "No existing credentials found"}
        /\ pc \notin {"L45", "L46"}
        /\ outcome.kind = "returned" => outcome.value.cls \in InteractiveClasses

C4_Witness ==
    /\ force
    /\ token_ok["DefaultAzureCredential"]
    /\ pc = "done"
    /\ outcome.kind = "returned"

\* C5: an unknown auth_method raises its ValueError before any credential is
\* constructed and before any token request, the cached credential's included
\* when force=False.
C5_UnknownMethodFailsBeforeAnyCredential ==
    (IsUnknownMethod(arg_auth_method) /\ tenant_id # PyNone) =>
        /\ credentials = <<>>
        /\ token_requests = <<>>

\* C6: an interactive credential is asked for a token right after it is
\* constructed and exactly once; when that request fails the failure is
\* printed, the same error reaches the caller, no credential is returned and
\* the other interactive flow is not tried.
C6_InteractiveValidatedOnceAndReraised ==
    \A c \in Constructed :
        c.cls \in InteractiveClasses =>
            /\ c = credentials[Len(credentials)]
            /\ pc \in {"L71", "L88", "done"}
            /\ pc # "done" => RequestsOn(c) = 0
            /\ pc = "done" =>
                /\ RequestsOn(c) = 1
                /\ token_requests[Len(token_requests)].credential = c
                /\ ~token_ok[c.cls] =>
                    /\ outcome = Raised(TokenError(c.cls))
                    /\ stdout[Len(stdout)] = [msg |-> "Authentication failed",
                                              error |-> TokenError(c.cls)]
                    /\ Cardinality({d \in Constructed : d.cls \in InteractiveClasses}) = 1

C6_Witness ==
    /\ pc = "done"
    /\ ~force
    /\ Credential("InteractiveBrowserCredential", tenant_id) \in Asked
    /\ outcome = Raised(TokenError("InteractiveBrowserCredential"))

\* The flow the documentation of auth_method promises for a caller's value.
PromisedFlow(m) ==
    IF m = PyNone THEN "InteractiveBrowserCredential"
    ELSE IF m.type = "str" /\ Lower(m.chars) = S_browser THEN "InteractiveBrowserCredential"
    ELSE IF m.type = "str" /\ Lower(m.chars) = S_device THEN "DeviceCodeCredential"
    ELSE "none"

\* The result of the one interactive flow of class cls.
FlowOutcome(cls) ==
    IF token_ok[cls] THEN Returned(Credential(cls, tenant_id)) ELSE Raised(TokenError(cls))

\* C9: with force=False, a tenant_id and a cached credential whose token
\* request fails, the failure is not propagated and exactly one interactive
\* flow follows: browser for None or "browser", device for "device"; its
\* outcome is the call's outcome, and force=True starts the same flow for the
\* same auth_method.
C9_OneFallbackFlowChosenByMethod ==
    (tenant_id # PyNone /\ PromisedFlow(arg_auth_method) # "none" /\ pc = "done") =>
        /\ (~force /\ ~token_ok["DefaultAzureCredential"]) =>
            /\ credentials = <<Cached, Credential(PromisedFlow(arg_auth_method), tenant_id)>>
            /\ outcome # Raised(TokenError("DefaultAzureCredential"))
            /\ outcome = FlowOutcome(PromisedFlow(arg_auth_method))
        /\ force =>
            /\ credentials = <<Credential(PromisedFlow(arg_auth_method), tenant_id)>>
            /\ outcome = FlowOutcome(PromisedFlow(arg_auth_method))

C9_Witness ==
    /\ ~force
    /\ ~token_ok["DefaultAzureCredential"]
    /\ arg_auth_method = PyStr(S_device)
    /\ pc = "done"
    /\ credentials = <<Cached, Credential("DeviceCodeCredential", tenant_id)>>
    /\ outcome = Returned(Credential("DeviceCodeCredential", tenant_id))

\* C10: a call ends either returning a credential or raising an error; a
\* returned credential is one whose token request succeeded during the call;
\* an interactive credential is constructed with the caller's tenant_id; and a
\* call makes at most two token requests, at most one on the cached credential
\* followed by at most one on a single interactive credential.
C10_CallInvariant ==
    /\ pc = "done" <=> outcome.kind \in {"returned", "raised"}
    /\ pc # "done" <=> outcome = Running
    /\ outcome.kind = "returned" =>
           \E i \in 1..Len(token_requests) :
               token_requests[i] = [credential |-> outcome.value, ok |-> TRUE]
    /\ \A c \in Constructed : c.cls \in InteractiveClasses => c.tenant_id = tenant_id
    /\ Len(token_requests) <= 2
    /\ \A c \in Asked : RequestsOn(c) = 1
    /\ Cardinality({c \in Asked : c.cls \in InteractiveClasses}) <= 1
    /\ Len(token_requests) = 2 =>
           /\ token_requests[1].credential = Cached
           /\ token_requests[2].credential.cls \in InteractiveClasses

C10_Witness ==
    /\ pc = "done"
    /\ Len(token_requests) = 2
    /\ outcome.kind = "returned"
    /\ outcome.value = Credential("InteractiveBrowserCredential", tenant_id)

----------------------------------------------------------------------------
(* Properties of the pytest session, checked under PytestSpec *)

S_ipynb == <<".","i","p","y","n","b">>

\* An .ipynb file: a regular file whose name ends in ".ipynb".
IsNotebookFile(e) ==
    /\ e.kind = "file"
    /\ Len(e.path[Len(e.path)]) >= Len(S_ipynb)
    /\ SubSeq(e.path[Len(e.path)],
              Len(e.path[Len(e.path)]) - Len(S_ipynb) + 1,
              Len(e.path[Len(e.path)])) = S_ipynb

\* C7: without --nbmake, test_notebook_execution ends skipped for both
\* notebooks, never passed or failed, whether or not the notebook exists.
C7_SkippedWithoutNbmake ==
    (phase = "pytest" /\ ~nbmake) =>
        \A i \in {3, 4} : report[i] \in {"pending", "skipped"}

\* C8: test_all_notebooks_exist passes in exactly the file trees that hold an
\* .ipynb file at some depth, and fails in the trees that hold none.
C8_PassesExactlyWhenNotebookFileExists ==
    report[2] # "pending" =>
        (report[2] = "passed" <=> \E e \in fs : IsNotebookFile(e))

====
